---- MODULE Spec2Model ----
(***************************************************************************)
(* Model of the go-salesforce client: the single-record and collection DML *)
(* functions (doInsertOne .. doDeleteCollection), the record conversion    *)
(* helpers, and the session layer (doAuth, the grant flows, refreshSession)*)
(***************************************************************************)
EXTENDS Integers, Sequences, FiniteSets, TLC

VARIABLES
    callerMap,   \* the caller's own map[string]any, passed by reference
    last,        \* the last DML call: arguments, returned error, requests
    passed,      \* calls on callerMap that got past their identifier check
    sf,          \* the client handle: [auth |-> session or NoAuth]
    lastAuth,    \* the last Init/refreshSession call and the flows it ran
    issued,      \* the credentials given to Init and the session it returned
    pc,          \* concurrent refresh: position of each caller
    refreshed    \* concurrent refresh: each caller's local refreshedAuth

vars == <<callerMap, last, passed, sf, lastAuth, issued, pc, refreshed>>

dmlVars  == <<callerMap, last, passed>>
authVars == <<sf, lastAuth, issued>>
concVars == <<pc, refreshed>>

(***************************************************************************)
(* Bounds                                                                  *)
(***************************************************************************)
MaxSmall == 2      \* short collections have 0..MaxSmall records
MaxOver == 1       \* long collections have up to MaxRecords + MaxOver

(***************************************************************************)
(* Program constants                                                       *)
(***************************************************************************)
MaxRecords == 200
StatusOK == 200
StatusCreated == 201
StatusNoContent == 204

(***************************************************************************)
(* Values of type any held in a record, and map[string]any                 *)
(***************************************************************************)
Str(s) == [kind |-> "string", v |-> s]
Num == [kind |-> "number", v |-> "1"]
Chan == [kind |-> "chan", v |-> ""]          \* a value encoding/json rejects
Attributes(sObjectName) == [kind |-> "attributes", v |-> sObjectName]

EmptyMap == [k \in {} |-> Num]

\* delete(m, key)
MapDelete(m, key) == [k \in DOMAIN m \ {key} |-> m[k]]

\* m[key] = val
MapSet(m, key, val) == [k \in DOMAIN m \cup {key} |-> IF k = key THEN val ELSE m[k]]

\* v, ok := m[key].(string); ok && v != ""
NonEmptyString(m, key) ==
    /\ key \in DOMAIN m
    /\ m[key].kind = "string"
    /\ m[key].v # ""

(***************************************************************************)
(* Errors                                                                  *)
(***************************************************************************)
Err(type) == [type |-> type, status |-> 0, failed |-> {}]
Nil == Err("nil")
ErrDecode == Err("issue decoding salesforce object")
ErrIdNotFound == Err("salesforce id not found in object data")
ErrExternalId == Err("salesforce externalId not found")
ErrTooMany == Err("salesforce composite api call supports up to 200 records at once")
ErrMarshal == Err("json: unsupported type")
ErrTransport == Err("transport")
Panic == Err("panic")

(***************************************************************************)
(* Arguments of type any                                                   *)
(***************************************************************************)
StructFields == <<"Id", "Name", "Ext__c">>

AnyMap(m) == [shape |-> "map", m |-> m, items |-> <<>>]
AnyStruct(s) == [shape |-> "struct", m |-> EmptyMap, items |-> <<s>>]
AnyScalar == [shape |-> "scalar", m |-> EmptyMap, items |-> <<>>]
AnySliceOfMaps(ms) == [shape |-> "sliceOfMaps", m |-> EmptyMap, items |-> ms]
AnySliceOfStructs(ss) == [shape |-> "sliceOfStructs", m |-> EmptyMap, items |-> ss]

\* mapstructure.Decode of one struct value into a map[string]any: one key per
\* exported field, holding the field's (string) value
DecodeStruct(s) == [k \in {StructFields[i] : i \in 1..Len(StructFields)} |->
                       Str(s[CHOOSE i \in 1..Len(StructFields) : StructFields[i] = k])]

\* convertToMap decoding a caller's map into a fresh one, as it does a struct
convertToMap_copies(obj) ==
    IF obj.shape = "map"
    THEN [recordMap |-> obj.m, alias |-> FALSE, err |-> Nil]
    ELSE IF obj.shape = "struct"
    THEN [recordMap |-> DecodeStruct(obj.items[1]), alias |-> FALSE, err |-> Nil]
    ELSE [recordMap |-> EmptyMap, alias |-> FALSE, err |-> ErrDecode]

convertToMap(obj) ==
    IF obj.shape = "map"
    THEN [recordMap |-> obj.m, alias |-> TRUE, err |-> Nil]
    ELSE IF obj.shape = "struct"
    THEN [recordMap |-> DecodeStruct(obj.items[1]), alias |-> FALSE, err |-> Nil]
    ELSE [recordMap |-> EmptyMap, alias |-> FALSE, err |-> ErrDecode]

convertToSliceOfMaps(obj) ==
    IF obj.shape = "map"
    THEN [recordMap |-> <<>>, err |-> Panic]
    ELSE IF obj.shape = "sliceOfMaps"
    THEN [recordMap |-> [i \in 1..Len(obj.items) |-> obj.items[i]], err |-> Nil]
    ELSE IF obj.shape = "sliceOfStructs"
    THEN [recordMap |-> [i \in 1..Len(obj.items) |-> DecodeStruct(obj.items[i])],
          err |-> Nil]
    ELSE [recordMap |-> <<>>, err |-> ErrDecode]

(***************************************************************************)
(* encoding/json                                                           *)
(***************************************************************************)
\* json.Marshal of a map[string]any: the object's members, or an error
Marshalable(m) == \A k \in DOMAIN m : m[k].kind # "chan"
Members(m) == {<<k, m[k]>> : k \in DOMAIN m}

\* strconv.FormatBool
FormatBool(b) == IF b THEN "true" ELSE "false"

(***************************************************************************)
(* The transport and the response interpreters                             *)
(***************************************************************************)
Request(method, uri, body) == [method |-> method, uri |-> uri, body |-> body]

ObjectBody(m) == [kind |-> "object", allOrNone |-> "", records |-> <<Members(m)>>]
EmptyBody == [kind |-> "empty", allOrNone |-> "", records |-> <<>>]
CollectionBody(allOrNone, ms) ==
    [kind |-> "collection", allOrNone |-> FormatBool(allOrNone),
     records |-> [i \in 1..Len(ms) |-> Members(ms[i])]]

\* what the remote end answers to one request: a transport failure, or a
\* status with, for a composite call, the indices of the failing records
Response(transportErr, status, failed) ==
    [transportErr |-> transportErr, status |-> status, failed |-> failed]
NoResponse == Response(FALSE, 0, {})

\* doRequest: sends one request; returns the response or the transport's error
doRequest(req, resp) ==
    IF resp.transportErr THEN [resp |-> NoResponse, err |-> ErrTransport]
    ELSE [resp |-> resp, err |-> Nil]

\* processSalesforceError: the remote error parsed from a non-expected status
processSalesforceError(resp) ==
    [type |-> "salesforce error", status |-> resp.status, failed |-> {}]

\* processSalesforceResponse: scans every per-record outcome; nil when no
\* record failed, otherwise one error naming every failing record
processSalesforceResponse(resp) ==
    IF resp.failed = {} THEN Nil
    ELSE [type |-> "salesforce errors", status |-> resp.status, failed |-> resp.failed]

\* the outcome of one call: the returned error, the requests issued, the
\* response consumed, and the argument as the caller sees it afterwards
Result(err, reqs, resp, obj) == [err |-> err, reqs |-> reqs, resp |-> resp, obj |-> obj]

\* the caller's view of its argument once recordMap has been modified in place
After(record, c, recordMap) == IF c.alias THEN AnyMap(recordMap) ELSE record

(***************************************************************************)
(* Single-record operations                                                *)
(***************************************************************************)
\* doInsertOne without the delete of line 49
doInsertOne_keepsId(sObjectName, record, resp) ==
    LET c == convertToMap(record)
        recordMap == MapSet(c.recordMap, "attributes", Attributes(sObjectName))
        after == After(record, c, recordMap)
        req == Request("POST", "/sobjects/" \o sObjectName, ObjectBody(recordMap))
        r == doRequest(req, resp)
    IN  IF c.err # Nil THEN Result(c.err, <<>>, NoResponse, record)
        ELSE IF ~Marshalable(recordMap) THEN Result(ErrMarshal, <<>>, NoResponse, after)
        ELSE IF r.err # Nil THEN Result(r.err, <<req>>, resp, after)
        ELSE IF r.resp.status # StatusCreated
        THEN Result(processSalesforceError(r.resp), <<req>>, resp, after)
        ELSE Result(Nil, <<req>>, resp, after)

doInsertOne(sObjectName, record, resp) ==
    LET c == convertToMap(record)
        recordMap == MapDelete(MapSet(c.recordMap, "attributes", Attributes(sObjectName)), "Id")
        after == After(record, c, recordMap)
        req == Request("POST", "/sobjects/" \o sObjectName, ObjectBody(recordMap))
        r == doRequest(req, resp)
    IN  IF c.err # Nil THEN Result(c.err, <<>>, NoResponse, record)
        ELSE IF ~Marshalable(recordMap) THEN Result(ErrMarshal, <<>>, NoResponse, after)
        ELSE IF r.err # Nil THEN Result(r.err, <<req>>, resp, after)
        ELSE IF r.resp.status # StatusCreated
        THEN Result(processSalesforceError(r.resp), <<req>>, resp, after)
        ELSE Result(Nil, <<req>>, resp, after)

doUpdateOne(sObjectName, record, resp) ==
    LET c == convertToMap(record)
        recordId == c.recordMap["Id"].v
        recordMap == MapDelete(MapSet(c.recordMap, "attributes", Attributes(sObjectName)), "Id")
        after == After(record, c, recordMap)
        req == Request("PATCH", "/sobjects/" \o sObjectName \o "/" \o recordId,
                       ObjectBody(recordMap))
        r == doRequest(req, resp)
    IN  IF c.err # Nil THEN Result(c.err, <<>>, NoResponse, record)
        ELSE IF ~NonEmptyString(c.recordMap, "Id")
        THEN Result(ErrIdNotFound, <<>>, NoResponse, record)
        ELSE IF ~Marshalable(recordMap) THEN Result(ErrMarshal, <<>>, NoResponse, after)
        ELSE IF r.err # Nil THEN Result(r.err, <<req>>, resp, after)
        ELSE IF r.resp.status # StatusNoContent
        THEN Result(processSalesforceError(r.resp), <<req>>, resp, after)
        ELSE Result(Nil, <<req>>, resp, after)

doUpsertOne(sObjectName, fieldName, record, resp) ==
    LET c == convertToMap(record)
        externalIdValue == c.recordMap[fieldName].v
        recordMap == MapDelete(MapDelete(
                         MapSet(c.recordMap, "attributes", Attributes(sObjectName)),
                         "Id"), fieldName)
        after == After(record, c, recordMap)
        req == Request("PATCH", "/sobjects/" \o sObjectName \o "/" \o fieldName
                                \o "/" \o externalIdValue,
                       ObjectBody(recordMap))
        r == doRequest(req, resp)
    IN  IF c.err # Nil THEN Result(c.err, <<>>, NoResponse, record)
        ELSE IF ~NonEmptyString(c.recordMap, fieldName)
        THEN Result(ErrExternalId, <<>>, NoResponse, record)
        ELSE IF ~Marshalable(recordMap) THEN Result(ErrMarshal, <<>>, NoResponse, after)
        ELSE IF r.err # Nil THEN Result(r.err, <<req>>, resp, after)
        ELSE IF r.resp.status # StatusOK
        THEN Result(processSalesforceError(r.resp), <<req>>, resp, after)
        ELSE Result(Nil, <<req>>, resp, after)

\* doDeleteOne testing only that the record has an Id key
doDeleteOne_anyId(sObjectName, record, resp) ==
    LET c == convertToMap(record)
        recordId == IF c.recordMap["Id"].kind = "string" THEN c.recordMap["Id"].v ELSE ""
        req == Request("DELETE", "/sobjects/" \o sObjectName \o "/" \o recordId, EmptyBody)
        r == doRequest(req, resp)
    IN  IF c.err # Nil THEN Result(c.err, <<>>, NoResponse, record)
        ELSE IF "Id" \notin DOMAIN c.recordMap
        THEN Result(ErrIdNotFound, <<>>, NoResponse, record)
        ELSE IF r.err # Nil THEN Result(r.err, <<req>>, resp, record)
        ELSE IF r.resp.status # StatusNoContent
        THEN Result(processSalesforceError(r.resp), <<req>>, resp, record)
        ELSE Result(Nil, <<req>>, resp, record)

doDeleteOne(sObjectName, record, resp) ==
    LET c == convertToMap(record)
        recordId == c.recordMap["Id"].v
        req == Request("DELETE", "/sobjects/" \o sObjectName \o "/" \o recordId, EmptyBody)
        r == doRequest(req, resp)
    IN  IF c.err # Nil THEN Result(c.err, <<>>, NoResponse, record)
        ELSE IF ~NonEmptyString(c.recordMap, "Id")
        THEN Result(ErrIdNotFound, <<>>, NoResponse, record)
        ELSE IF r.err # Nil THEN Result(r.err, <<req>>, resp, record)
        ELSE IF r.resp.status # StatusNoContent
        THEN Result(processSalesforceError(r.resp), <<req>>, resp, record)
        ELSE Result(Nil, <<req>>, resp, record)

(***************************************************************************)
(* Collection operations                                                   *)
(***************************************************************************)
\* the tail shared by the four collection functions once the request is built
\* is written out in each, as in the source
\* doInsertCollection returning after the status check, the scan left out
doInsertCollection_noScan(sObjectName, records, allOrNone, resp) ==
    LET c == convertToSliceOfMaps(records)
        recordMap == [i \in 1..Len(c.recordMap) |->
                         MapSet(MapDelete(c.recordMap[i], "Id"),
                                "attributes", Attributes(sObjectName))]
        req == Request("POST", "/composite/sobjects/", CollectionBody(allOrNone, recordMap))
        r == doRequest(req, resp)
    IN  IF c.err # Nil THEN Result(c.err, <<>>, NoResponse, records)
        ELSE IF Len(c.recordMap) > MaxRecords THEN Result(ErrTooMany, <<>>, NoResponse, records)
        ELSE IF \E i \in 1..Len(recordMap) : ~Marshalable(recordMap[i])
        THEN Result(ErrMarshal, <<>>, NoResponse, records)
        ELSE IF r.err # Nil THEN Result(r.err, <<req>>, resp, records)
        ELSE IF r.resp.status # StatusOK
        THEN Result(processSalesforceError(r.resp), <<req>>, resp, records)
        ELSE Result(Nil, <<req>>, resp, records)

doInsertCollection(sObjectName, records, allOrNone, resp) ==
    LET c == convertToSliceOfMaps(records)
        recordMap == [i \in 1..Len(c.recordMap) |->
                         MapSet(MapDelete(c.recordMap[i], "Id"),
                                "attributes", Attributes(sObjectName))]
        req == Request("POST", "/composite/sobjects/", CollectionBody(allOrNone, recordMap))
        r == doRequest(req, resp)
    IN  IF c.err # Nil THEN Result(c.err, <<>>, NoResponse, records)
        ELSE IF Len(c.recordMap) > MaxRecords THEN Result(ErrTooMany, <<>>, NoResponse, records)
        ELSE IF \E i \in 1..Len(recordMap) : ~Marshalable(recordMap[i])
        THEN Result(ErrMarshal, <<>>, NoResponse, records)
        ELSE IF r.err # Nil THEN Result(r.err, <<req>>, resp, records)
        ELSE IF r.resp.status # StatusOK
        THEN Result(processSalesforceError(r.resp), <<req>>, resp, records)
        ELSE Result(processSalesforceResponse(r.resp), <<req>>, resp, records)

doUpdateCollection(sObjectName, records, allOrNone, resp) ==
    LET c == convertToSliceOfMaps(records)
        recordMap == [i \in 1..Len(c.recordMap) |->
                         MapSet(c.recordMap[i], "attributes", Attributes(sObjectName))]
        req == Request("PATCH", "/composite/sobjects/", CollectionBody(allOrNone, recordMap))
        r == doRequest(req, resp)
    IN  IF c.err # Nil THEN Result(c.err, <<>>, NoResponse, records)
        ELSE IF Len(c.recordMap) > MaxRecords THEN Result(ErrTooMany, <<>>, NoResponse, records)
        ELSE IF \E i \in 1..Len(recordMap) : ~NonEmptyString(recordMap[i], "Id")
        THEN Result(ErrIdNotFound, <<>>, NoResponse, records)
        ELSE IF \E i \in 1..Len(recordMap) : ~Marshalable(recordMap[i])
        THEN Result(ErrMarshal, <<>>, NoResponse, records)
        ELSE IF r.err # Nil THEN Result(r.err, <<req>>, resp, records)
        ELSE IF r.resp.status # StatusOK
        THEN Result(processSalesforceError(r.resp), <<req>>, resp, records)
        ELSE Result(processSalesforceResponse(r.resp), <<req>>, resp, records)

doUpsertCollection(sObjectName, fieldName, records, allOrNone, resp) ==
    LET c == convertToSliceOfMaps(records)
        recordMap == [i \in 1..Len(c.recordMap) |->
                         MapSet(c.recordMap[i], "attributes", Attributes(sObjectName))]
        req == Request("PATCH", "/composite/sobjects/" \o sObjectName \o "/" \o fieldName,
                       CollectionBody(allOrNone, recordMap))
        r == doRequest(req, resp)
    IN  IF c.err # Nil THEN Result(c.err, <<>>, NoResponse, records)
        ELSE IF Len(c.recordMap) > MaxRecords THEN Result(ErrTooMany, <<>>, NoResponse, records)
        ELSE IF \E i \in 1..Len(recordMap) : ~NonEmptyString(recordMap[i], fieldName)
        THEN Result(ErrExternalId, <<>>, NoResponse, records)
        ELSE IF \E i \in 1..Len(recordMap) : ~Marshalable(recordMap[i])
        THEN Result(ErrMarshal, <<>>, NoResponse, records)
        ELSE IF r.err # Nil THEN Result(r.err, <<req>>, resp, records)
        ELSE IF r.resp.status # StatusOK
        THEN Result(processSalesforceError(r.resp), <<req>>, resp, records)
        ELSE Result(processSalesforceResponse(r.resp), <<req>>, resp, records)

\* ids: the Ids of records lo..hi, each but the last followed by a comma
\* (the loop of lines 291-302, split in halves to keep the evaluation shallow)
RECURSIVE JoinIds(_, _, _)
JoinIds(recordMap, lo, hi) ==
    IF lo > hi THEN ""
    ELSE IF lo = hi THEN recordMap[lo]["Id"].v
    ELSE LET mid == (lo + hi) \div 2
         IN  JoinIds(recordMap, lo, mid) \o "," \o JoinIds(recordMap, mid + 1, hi)

\* doDeleteCollection with the size check written >= 200
doDeleteCollection_capOffByOne(sObjectName, records, allOrNone, resp) ==
    LET c == convertToSliceOfMaps(records)
        recordMap == c.recordMap
        req == Request("DELETE",
                       "/composite/sobjects/?ids=" \o JoinIds(recordMap, 1, Len(recordMap))
                           \o "&allOrNone=" \o FormatBool(allOrNone),
                       EmptyBody)
        r == doRequest(req, resp)
    IN  IF c.err # Nil THEN Result(c.err, <<>>, NoResponse, records)
        ELSE IF Len(recordMap) >= MaxRecords THEN Result(ErrTooMany, <<>>, NoResponse, records)
        ELSE IF \E i \in 1..Len(recordMap) : ~NonEmptyString(recordMap[i], "Id")
        THEN Result(ErrIdNotFound, <<>>, NoResponse, records)
        ELSE IF r.err # Nil THEN Result(r.err, <<req>>, resp, records)
        ELSE IF r.resp.status # StatusOK
        THEN Result(processSalesforceError(r.resp), <<req>>, resp, records)
        ELSE Result(processSalesforceResponse(r.resp), <<req>>, resp, records)

doDeleteCollection(sObjectName, records, allOrNone, resp) ==
    LET c == convertToSliceOfMaps(records)
        recordMap == c.recordMap
        req == Request("DELETE",
                       "/composite/sobjects/?ids=" \o JoinIds(recordMap, 1, Len(recordMap))
                           \o "&allOrNone=" \o FormatBool(allOrNone),
                       EmptyBody)
        r == doRequest(req, resp)
    IN  IF c.err # Nil THEN Result(c.err, <<>>, NoResponse, records)
        ELSE IF Len(recordMap) > MaxRecords THEN Result(ErrTooMany, <<>>, NoResponse, records)
        ELSE IF \E i \in 1..Len(recordMap) : ~NonEmptyString(recordMap[i], "Id")
        THEN Result(ErrIdNotFound, <<>>, NoResponse, records)
        ELSE IF r.err # Nil THEN Result(r.err, <<req>>, resp, records)
        ELSE IF r.resp.status # StatusOK
        THEN Result(processSalesforceError(r.resp), <<req>>, resp, records)
        ELSE Result(processSalesforceResponse(r.resp), <<req>>, resp, records)

(***************************************************************************)
(* The callers' inputs                                                     *)
(***************************************************************************)
Absent == [kind |-> "absent", v |-> ""]

\* the map holding the given fields, Absent ones left out
Build(id, ext, name, attr) ==
    LET all == [k \in {"Id", "Ext__c", "Name", "attributes"} |->
                   CASE k = "Id" -> id [] k = "Ext__c" -> ext
                     [] k = "Name" -> name [] OTHER -> attr]
    IN  [k \in {x \in DOMAIN all : all[x] # Absent} |-> all[k]]

\* the caller's maps: Id and Ext__c each present, absent, empty or not a string
CallerMaps ==
    {Build(Str("001"), Str("E1"), Str("Acme"), Absent),
     Build(Absent, Absent, Str("Acme"), Absent),
     Build(Str(""), Num, Str("Acme"), Absent),
     Build(Num, Str(""), Str("Acme"), Absent),
     Build(Str("001"), Absent, Str("Acme"), Absent),
     Build(Absent, Str("E1"), Str("Acme"), Absent),
     Build(Str("001"), Str("E1"), Chan, Absent),
     Build(Str("001"), Str("E1"), Str("Acme"), Str("x"))}

SObjectNames == {"Account", "Contact"}
ExternalIdFields == {"Ext__c", "Id", "attributes"}

\* struct values, fields in the order of StructFields
StructValues == {<<"001", "Acme", "E1">>, <<"", "Acme", "">>}

\* a well-formed record for position i of a collection
GoodRecord(i) ==
    IF i % 2 = 1 THEN Build(Str("001"), Str("E1"), Str("Acme"), Absent)
    ELSE Build(Str("002"), Str("E2"), Str("Bolt"), Absent)
GoodStruct(i) == IF i % 2 = 1 THEN <<"001", "Acme", "E1">> ELSE <<"002", "Bolt", "E2">>

CollectionSizes == (0..MaxSmall) \cup (MaxRecords..(MaxRecords + MaxOver))
Positions(n) == IF n <= MaxSmall THEN 1..n ELSE {1, n}

\* the values a caller passes as `records`: slices of good records, possibly
\* holding the caller's own map or a zero-valued struct at one position, and the
\* non-slice values
CollectionArgs(own) ==
    {AnySliceOfMaps([i \in 1..n |-> GoodRecord(i)]) : n \in CollectionSizes}
    \cup UNION {{AnySliceOfMaps([i \in 1..n |-> IF i = p THEN own ELSE GoodRecord(i)])
                    : p \in Positions(n)} : n \in CollectionSizes}
    \cup {AnySliceOfStructs([i \in 1..n |-> GoodStruct(i)]) : n \in 0..MaxSmall}
    \cup UNION {{AnySliceOfStructs([i \in 1..n |->
                                      IF i = p THEN <<"", "Acme", "">> ELSE GoodStruct(i)])
                    : p \in 1..n} : n \in 0..MaxSmall}
    \cup {AnyMap(own), AnyStruct(GoodStruct(1)), AnyScalar}

RecordArgs(own) == {AnyMap(own), AnyScalar} \cup {AnyStruct(s) : s \in StructValues}

Statuses == {StatusOK, StatusCreated, StatusNoContent, 400}

\* answers to a single-record request
Responses == {Response(TRUE, 0, {})} \cup {Response(FALSE, st, {}) : st \in Statuses}

\* answers to a composite request carrying n records: a transport failure, or
\* a status and the indices of the records the body reports as failed
CollectionResponses(n) ==
    {Response(TRUE, 0, {}),
     Response(FALSE, 400, {}), Response(FALSE, 400, {1}),
     Response(FALSE, StatusOK, {}), Response(FALSE, StatusOK, {1}),
     Response(FALSE, StatusOK, {IF n = 0 THEN 1 ELSE n})}

ArgLen(arg) == Len(arg.items)

(***************************************************************************)
(* State machine of the DML calls                                          *)
(***************************************************************************)
NoCall ==
    [op |-> "none", sObjectName |-> "", fieldName |-> "", arg |-> AnyScalar,
     allOrNone |-> FALSE, byRef |-> FALSE, prior |-> {},
     err |-> Nil, reqs |-> <<>>, resp |-> NoResponse]

Call(op, sObjectName, fieldName, arg, allOrNone, r) ==
    [op |-> op, sObjectName |-> sObjectName, fieldName |-> fieldName, arg |-> arg,
     allOrNone |-> allOrNone, byRef |-> (arg.shape = "map"), prior |-> passed,
     err |-> r.err, reqs |-> r.reqs, resp |-> r.resp]

\* the local failures: nothing of the record was used
LocalErrors == {ErrDecode, ErrIdNotFound, ErrExternalId, ErrTooMany, Panic}

\* the caller makes one call at a time, and none after a panic unwound it
Running == last = NoCall

\* the caller has looked at the outcome of its call and drops it
Return ==
    /\ last # NoCall
    /\ last.err # Panic
    /\ last' = NoCall
    /\ UNCHANGED <<callerMap, passed, authVars, concVars>>

\* the caller's map after a single-record call that was handed it
MapAfter(arg, r) == IF arg.shape = "map" THEN r.obj.m ELSE callerMap

InsertOne ==
    /\ Running
    /\ \E name \in SObjectNames, arg \in RecordArgs(callerMap), resp \in Responses :
         LET r == doInsertOne(name, arg, resp)
         IN  /\ last' = Call("doInsertOne", name, "", arg, FALSE, r)
             /\ callerMap' = MapAfter(arg, r)
             /\ passed' = passed
    /\ UNCHANGED <<authVars, concVars>>

UpdateOne ==
    /\ Running
    /\ \E name \in SObjectNames, arg \in RecordArgs(callerMap), resp \in Responses :
         LET r == doUpdateOne(name, arg, resp)
         IN  /\ last' = Call("doUpdateOne", name, "", arg, FALSE, r)
             /\ callerMap' = MapAfter(arg, r)
             /\ passed' = IF arg.shape = "map" /\ r.err \notin LocalErrors
                          THEN passed \cup {<<"doUpdateOne", "Id">>} ELSE passed
    /\ UNCHANGED <<authVars, concVars>>

UpsertOne ==
    /\ Running
    /\ \E name \in SObjectNames, field \in ExternalIdFields,
          arg \in RecordArgs(callerMap), resp \in Responses :
         LET r == doUpsertOne(name, field, arg, resp)
         IN  /\ last' = Call("doUpsertOne", name, field, arg, FALSE, r)
             /\ callerMap' = MapAfter(arg, r)
             /\ passed' = IF arg.shape = "map" /\ r.err \notin LocalErrors
                          THEN passed \cup {<<"doUpsertOne", field>>} ELSE passed
    /\ UNCHANGED <<authVars, concVars>>

DeleteOne ==
    /\ Running
    /\ \E name \in SObjectNames, arg \in RecordArgs(callerMap), resp \in Responses :
         LET r == doDeleteOne(name, arg, resp)
         IN  /\ last' = Call("doDeleteOne", name, "", arg, FALSE, r)
             /\ callerMap' = MapAfter(arg, r)
             /\ passed' = passed
    /\ UNCHANGED <<authVars, concVars>>

InsertCollection ==
    /\ Running
    /\ \E name \in SObjectNames, arg \in CollectionArgs(callerMap), allOrNone \in BOOLEAN :
         \E resp \in CollectionResponses(ArgLen(arg)) :
           last' = Call("doInsertCollection", name, "", arg, allOrNone,
                        doInsertCollection(name, arg, allOrNone, resp))
    /\ UNCHANGED <<callerMap, passed, authVars, concVars>>

UpdateCollection ==
    /\ Running
    /\ \E name \in SObjectNames, arg \in CollectionArgs(callerMap), allOrNone \in BOOLEAN :
         \E resp \in CollectionResponses(ArgLen(arg)) :
           last' = Call("doUpdateCollection", name, "", arg, allOrNone,
                        doUpdateCollection(name, arg, allOrNone, resp))
    /\ UNCHANGED <<callerMap, passed, authVars, concVars>>

UpsertCollection ==
    /\ Running
    /\ \E name \in SObjectNames, field \in ExternalIdFields,
          arg \in CollectionArgs(callerMap), allOrNone \in BOOLEAN :
         \E resp \in CollectionResponses(ArgLen(arg)) :
           last' = Call("doUpsertCollection", name, field, arg, allOrNone,
                        doUpsertCollection(name, field, arg, allOrNone, resp))
    /\ UNCHANGED <<callerMap, passed, authVars, concVars>>

DeleteCollection ==
    /\ Running
    /\ \E name \in SObjectNames, arg \in CollectionArgs(callerMap), allOrNone \in BOOLEAN :
         \E resp \in CollectionResponses(ArgLen(arg)) :
           last' = Call("doDeleteCollection", name, "", arg, allOrNone,
                        doDeleteCollection(name, arg, allOrNone, resp))
    /\ UNCHANGED <<callerMap, passed, authVars, concVars>>

(***************************************************************************)
(* Sessions: the authentication struct, the grant flows, refreshSession    *)
(***************************************************************************)
grantTypeUsernamePassword == "password"
grantTypeClientCredentials == "client_credentials"
grantTypeAccessToken == "access_token"

Creds(domain, username, password, securityToken, consumerKey, consumerSecret, accessToken) ==
    [Domain |-> domain, Username |-> username, Password |-> password,
     SecurityToken |-> securityToken, ConsumerKey |-> consumerKey,
     ConsumerSecret |-> consumerSecret, AccessToken |-> accessToken]
NoCreds == Creds("", "", "", "", "", "", "")

\* a pointer is the empty sequence (nil) or holds the value it points to
NilAuth == <<>>

ErrNotAuthenticated == Err("not authenticated: please use salesforce.Init()")
ErrInvalidSession == Err("invalid session, unable to refresh session")
ErrFailedAuthentication == Err("failed authentication")
ErrHttp == Err("http.Post")
ErrReadAll == Err("io.ReadAll")
ErrJson == Err("json.Unmarshal")
ErrConfiguration == Err("unrecognized credentials")

\* the identity endpoint's answer to one POST
Answer(kind, status, body) == [kind |-> kind, status |-> status, body |-> body]
EmptyJson == [k \in {} |-> ""]
NoAnswer == Answer("none", 0, EmptyJson)

\* json.Unmarshal of a JSON object into the authentication struct: each tagged
\* field takes its member's value, a missing member leaves the zero value
JsonField(body, key) == IF key \in DOMAIN body THEN body[key] ELSE ""
Unmarshal(body) ==
    [AccessToken |-> JsonField(body, "access_token"),
     InstanceUrl |-> JsonField(body, "instance_url"),
     Id |-> JsonField(body, "id"),
     TokenType |-> JsonField(body, "token_type"),
     Scope |-> JsonField(body, "scope"),
     IssuedAt |-> JsonField(body, "issued_at"),
     Signature |-> JsonField(body, "signature"),
     grantType |-> "",
     creds |-> NoCreds]

validateAuth(auth) ==
    IF auth = NilAuth \/ auth[1].AccessToken = "" THEN ErrNotAuthenticated ELSE Nil

\* the probe GET /limits with the session's token; any transport failure or
\* error status is the probe's error
validateSession(auth, resp) ==
    IF validateAuth(<<auth>>) # Nil THEN validateAuth(<<auth>>)
    ELSE IF resp.transportErr THEN ErrTransport
    ELSE IF resp.status >= 400 THEN processSalesforceError(resp)
    ELSE Nil

\* doAuth: the session parsed from the answer, or an error. The JSON text
\* "null" decodes into a nil pointer without an error.
doAuth(url, body, answer) ==
    LET post == [url |-> url, form |-> body]
    IN  IF answer.kind = "transportErr"
        THEN [auth |-> NilAuth, err |-> ErrHttp, posts |-> <<post>>]
        ELSE IF answer.status # StatusOK
        THEN [auth |-> NilAuth, err |-> ErrFailedAuthentication, posts |-> <<post>>]
        ELSE IF answer.kind = "readErr"
        THEN [auth |-> NilAuth, err |-> ErrReadAll, posts |-> <<post>>]
        ELSE IF answer.kind = "badJson"
        THEN [auth |-> NilAuth, err |-> ErrJson, posts |-> <<post>>]
        ELSE IF answer.kind = "null"
        THEN [auth |-> NilAuth, err |-> Nil, posts |-> <<post>>]
        ELSE [auth |-> <<Unmarshal(answer.body)>>, err |-> Nil, posts |-> <<post>>]

Endpoint == "/services/oauth2/token"

usernamePasswordFlow(domain, username, password, securityToken, consumerKey, consumerSecret, answer) ==
    LET payload == [grant_type |-> grantTypeUsernamePassword,
                    client_id |-> consumerKey,
                    client_secret |-> consumerSecret,
                    username |-> username,
                    password |-> password \o securityToken]
        r == doAuth(domain \o Endpoint, payload, answer)
    IN  IF r.err # Nil THEN [auth |-> NilAuth, err |-> r.err, posts |-> r.posts]
        ELSE IF r.auth = NilAuth THEN [auth |-> NilAuth, err |-> Panic, posts |-> r.posts]
        ELSE [auth |-> <<[r.auth[1] EXCEPT !.grantType = grantTypeUsernamePassword]>>,
              err |-> Nil, posts |-> r.posts]

clientCredentialsFlow(domain, consumerKey, consumerSecret, answer) ==
    LET payload == [grant_type |-> grantTypeClientCredentials,
                    client_id |-> consumerKey,
                    client_secret |-> consumerSecret]
        r == doAuth(domain \o Endpoint, payload, answer)
    IN  IF r.err # Nil THEN [auth |-> NilAuth, err |-> r.err, posts |-> r.posts]
        ELSE IF r.auth = NilAuth THEN [auth |-> NilAuth, err |-> Panic, posts |-> r.posts]
        ELSE [auth |-> <<[r.auth[1] EXCEPT !.grantType = grantTypeClientCredentials]>>,
              err |-> Nil, posts |-> r.posts]

setAccessToken(domain, accessToken, resp) ==
    LET auth == [Unmarshal(EmptyJson) EXCEPT !.InstanceUrl = domain,
                                             !.AccessToken = accessToken]
    IN  IF validateSession(auth, resp) # Nil
        THEN [auth |-> NilAuth, err |-> validateSession(auth, resp), posts |-> <<>>]
        ELSE [auth |-> <<[auth EXCEPT !.grantType = grantTypeAccessToken]>>,
              err |-> Nil, posts |-> <<>>]

\* the switch of refreshSession with the two case bodies exchanged
RefreshFlow_swapped(auth, answer) ==
    IF auth.grantType = grantTypeUsernamePassword
    THEN clientCredentialsFlow(auth.creds.Domain, auth.creds.ConsumerKey,
                               auth.creds.ConsumerSecret, answer)
    ELSE IF auth.grantType = grantTypeClientCredentials
    THEN usernamePasswordFlow(auth.creds.Domain, auth.creds.Username,
                              auth.creds.Password, auth.creds.SecurityToken,
                              auth.creds.ConsumerKey, auth.creds.ConsumerSecret, answer)
    ELSE [auth |-> NilAuth, err |-> ErrInvalidSession, posts |-> <<>>]

\* the flow refreshSession runs for the session's grantType (lines 67-85)
RefreshFlow(auth, answer) ==
    IF auth.grantType = grantTypeClientCredentials
    THEN clientCredentialsFlow(auth.creds.Domain, auth.creds.ConsumerKey,
                               auth.creds.ConsumerSecret, answer)
    ELSE IF auth.grantType = grantTypeUsernamePassword
    THEN usernamePasswordFlow(auth.creds.Domain, auth.creds.Username,
                              auth.creds.Password, auth.creds.SecurityToken,
                              auth.creds.ConsumerKey, auth.creds.ConsumerSecret, answer)
    ELSE [auth |-> NilAuth, err |-> ErrInvalidSession, posts |-> <<>>]

\* refreshSession taking the instance URL from the new session as well
refreshSession_copiesInstanceUrl(auth, answer) ==
    LET r == RefreshFlow(auth, answer)
    IN  IF r.auth # NilAuth
        THEN [auth |-> [auth EXCEPT !.AccessToken = r.auth[1].AccessToken,
                                    !.InstanceUrl = r.auth[1].InstanceUrl,
                                    !.IssuedAt = r.auth[1].IssuedAt,
                                    !.Signature = r.auth[1].Signature,
                                    !.Id = r.auth[1].Id],
              err |-> r.err, posts |-> r.posts]
        ELSE [auth |-> auth, err |-> r.err, posts |-> r.posts]

\* refreshSession(auth): auth as the call leaves it, the error, the POSTs made
refreshSession(auth, answer) ==
    LET r == RefreshFlow(auth, answer)
    IN  IF r.auth # NilAuth
        THEN [auth |-> [auth EXCEPT !.AccessToken = r.auth[1].AccessToken,
                                    !.IssuedAt = r.auth[1].IssuedAt,
                                    !.Signature = r.auth[1].Signature,
                                    !.Id = r.auth[1].Id],
              err |-> r.err, posts |-> r.posts]
        ELSE [auth |-> auth, err |-> r.err, posts |-> r.posts]

\* Init: picks the flow by the populated credentials, runs it and keeps the
\* credentials in the session; a flow's error, or a session that is not fully
\* populated, leaves the caller without a handle
InitFlow(creds, answer, resp) ==
    IF creds.Domain # "" /\ creds.ConsumerKey # "" /\ creds.ConsumerSecret # ""
         /\ creds.Username # "" /\ creds.Password # "" /\ creds.SecurityToken # ""
    THEN usernamePasswordFlow(creds.Domain, creds.Username, creds.Password,
                              creds.SecurityToken, creds.ConsumerKey,
                              creds.ConsumerSecret, answer)
    ELSE IF creds.Domain # "" /\ creds.ConsumerKey # "" /\ creds.ConsumerSecret # ""
    THEN clientCredentialsFlow(creds.Domain, creds.ConsumerKey, creds.ConsumerSecret, answer)
    ELSE IF creds.Domain # "" /\ creds.AccessToken # ""
    THEN setAccessToken(creds.Domain, creds.AccessToken, resp)
    ELSE [auth |-> NilAuth, err |-> ErrConfiguration, posts |-> <<>>]

SalesforceInit(creds, answer, resp) ==
    LET r == InitFlow(creds, answer, resp)
    IN  IF r.err # Nil THEN r
        ELSE IF r.auth[1].AccessToken = "" \/ r.auth[1].InstanceUrl = ""
        THEN [auth |-> NilAuth, err |-> ErrFailedAuthentication, posts |-> r.posts]
        ELSE [auth |-> <<[r.auth[1] EXCEPT !.creds = creds]>>, err |-> Nil,
              posts |-> r.posts]

(***************************************************************************)
(* The identity endpoint's answers and the callers' credentials            *)
(***************************************************************************)
TokenBody(n) ==
    [k \in {"access_token", "instance_url", "id", "token_type", "scope",
            "issued_at", "signature"} |-> k \o n]
Without(body, key) == [k \in DOMAIN body \ {key} |-> body[k]]

TokenBodies == {TokenBody("1"), TokenBody("2"), EmptyJson,
                Without(TokenBody("1"), "access_token"),
                Without(TokenBody("2"), "instance_url")}

AuthAnswers ==
    {Answer("transportErr", 0, EmptyJson),
     Answer("status", 401, EmptyJson),
     Answer("readErr", StatusOK, EmptyJson),
     Answer("badJson", StatusOK, EmptyJson),
     Answer("null", StatusOK, EmptyJson)}
        \cup {Answer("object", StatusOK, b) : b \in TokenBodies}

ProbeResponses == {Response(TRUE, 0, {}), Response(FALSE, StatusOK, {}),
                   Response(FALSE, 401, {})}

CredsChoices ==
    {Creds("https://login", "user", "pass", "sectok", "key", "secret", ""),
     Creds("https://test", "user2", "pass2", "sectok2", "key2", "secret2", ""),
     Creds("https://login", "", "", "", "key", "secret", ""),
     Creds("https://inst", "", "", "", "", "", "token0"),
     Creds("https://inst", "", "", "", "", "", ""),
     NoCreds}

NoAuthCall ==
    [op |-> "none", err |-> Nil, posts |-> <<>>, before |-> NilAuth, answer |-> NoAnswer]
NotIssued == [creds |-> NoCreds, auth |-> NilAuth]

\* a panic unwinds the caller: nothing runs after it
AuthRunning == lastAuth.err # Panic

\* salesforce.Init(creds)
Authenticate ==
    /\ AuthRunning
    /\ \E creds \in CredsChoices, answer \in AuthAnswers, resp \in ProbeResponses :
         LET r == SalesforceInit(creds, answer, resp)
         IN  /\ sf' = IF r.err = Panic THEN sf ELSE [auth |-> r.auth]
             /\ issued' = IF r.err = Panic THEN issued
                          ELSE IF r.err = Nil THEN [creds |-> creds, auth |-> r.auth]
                          ELSE NotIssued
             /\ lastAuth' = [op |-> "Init", err |-> r.err, posts |-> r.posts,
                             before |-> sf.auth,
                             answer |-> IF r.posts = <<>> THEN NoAnswer ELSE answer]
    /\ UNCHANGED <<dmlVars, concVars>>

\* refreshSession(sf.auth)
Refresh ==
    /\ AuthRunning
    /\ sf.auth # NilAuth
    /\ \E answer \in AuthAnswers :
         LET r == refreshSession(sf.auth[1], answer)
         IN  /\ sf' = [auth |-> <<r.auth>>]
             /\ lastAuth' = [op |-> "refreshSession", err |-> r.err, posts |-> r.posts,
                             before |-> sf.auth,
                             answer |-> IF r.posts = <<>> THEN NoAnswer ELSE answer]
    /\ UNCHANGED <<issued, dmlVars, concVars>>

Init ==
    /\ callerMap \in CallerMaps
    /\ last = NoCall
    /\ passed = {}
    /\ sf = [auth |-> NilAuth]
    /\ lastAuth = NoAuthCall
    /\ issued = NotIssued
    /\ pc = <<>>
    /\ refreshed = <<>>

InitAuth ==
    /\ callerMap = EmptyMap
    /\ last = NoCall
    /\ passed = {}
    /\ sf = [auth |-> NilAuth]
    /\ lastAuth = NoAuthCall
    /\ issued = NotIssued
    /\ pc = <<>>
    /\ refreshed = <<>>

NextAuth ==
    \/ Authenticate
    \/ Refresh

SpecAuth == InitAuth /\ [][NextAuth]_vars

Next ==
    \/ InsertOne
    \/ UpdateOne
    \/ UpsertOne
    \/ DeleteOne
    \/ InsertCollection
    \/ UpdateCollection
    \/ UpsertCollection
    \/ DeleteCollection
    \/ Return

Spec == Init /\ [][Next]_vars

(***************************************************************************)
(* Vocabulary of the properties of the DML calls                           *)
(***************************************************************************)
CollectionOps == {"doInsertCollection", "doUpdateCollection",
                  "doUpsertCollection", "doDeleteCollection"}
IsSlice(arg) == arg.shape \in {"sliceOfMaps", "sliceOfStructs"}
IsRecord(arg) == arg.shape \in {"map", "struct"}

\* the records a caller handed over, as key-value data
RecordOf(arg) == IF arg.shape = "map" THEN arg.m ELSE DecodeStruct(arg.items[1])
RecordsOf(arg) ==
    [i \in 1..Len(arg.items) |->
        IF arg.shape = "sliceOfMaps" THEN arg.items[i] ELSE DecodeStruct(arg.items[i])]

Lacks(rec, key) == ~NonEmptyString(rec, key)

\* every record of the last collection call is acceptable to its operation
AllValid ==
    LET recs == RecordsOf(last.arg)
    IN  \A i \in 1..Len(recs) :
          /\ last.op \in {"doUpdateCollection", "doDeleteCollection"}
                => ~Lacks(recs[i], "Id")
          /\ last.op = "doUpsertCollection"
                => last.fieldName # "attributes" /\ ~Lacks(recs[i], last.fieldName)
          /\ last.op # "doDeleteCollection" => Marshalable(recs[i])

NoRequest == last.reqs = <<>>
OneRequest == Len(last.reqs) = 1

\* C1: a collection call with more than 200 records returns an error and sends
\* nothing; one with exactly 200 acceptable records passes the size check and
\* sends its request.
C1_SizeCap ==
    (last.op \in CollectionOps /\ IsSlice(last.arg)) =>
        /\ Len(last.arg.items) > MaxRecords => (last.err # Nil /\ NoRequest)
        /\ (Len(last.arg.items) = MaxRecords /\ AllValid)
              => (last.err # ErrTooMany /\ OneRequest)

C1_Witness ==
    /\ last.op = "doDeleteCollection"
    /\ Len(last.arg.items) = MaxRecords + 1
    /\ last.err = ErrTooMany
    /\ NoRequest

\* C2: update and delete of a record without a non-empty string Id, and upsert
\* of a record without a non-empty string external id, fail with no request
\* sent; in a collection the offending record may stand anywhere.
C2_MissingIdentifier ==
    /\ (last.op \in {"doUpdateOne", "doDeleteOne"} /\ IsRecord(last.arg)
            /\ Lacks(RecordOf(last.arg), "Id"))
          => (last.err # Nil /\ NoRequest)
    /\ (last.op = "doUpsertOne" /\ IsRecord(last.arg)
            /\ Lacks(RecordOf(last.arg), last.fieldName))
          => (last.err # Nil /\ NoRequest)
    /\ (last.op \in {"doUpdateCollection", "doDeleteCollection"} /\ IsSlice(last.arg)
            /\ \E i \in 1..Len(last.arg.items) : Lacks(RecordsOf(last.arg)[i], "Id"))
          => (last.err # Nil /\ NoRequest)
    /\ (last.op = "doUpsertCollection" /\ IsSlice(last.arg)
            /\ \E i \in 1..Len(last.arg.items) :
                  Lacks(RecordsOf(last.arg)[i], last.fieldName))
          => (last.err # Nil /\ NoRequest)

C2_Witness ==
    /\ last.op = "doUpdateCollection"
    /\ last.arg.shape = "sliceOfMaps"
    /\ Len(last.arg.items) = MaxRecords
    /\ Lacks(last.arg.items[MaxRecords], "Id")
    /\ \A i \in 1..(MaxRecords - 1) : ~Lacks(last.arg.items[i], "Id")
    /\ last.err = ErrIdNotFound
    /\ NoRequest

BodyRecords == last.reqs[1].body.records
HasKey(members, key) == \E p \in members : p[1] = key
HasAttributes(members) == <<"attributes", Attributes(last.sObjectName)>> \in members

\* C6 as stated: in the body of every insert, update and upsert request, single
\* or collection, every record has no Id and carries the attributes block, and
\* for upsert has no external-id field either.
C6_AsStated ==
    (OneRequest /\ last.op \in {"doInsertOne", "doUpdateOne", "doUpsertOne",
                                "doInsertCollection", "doUpdateCollection",
                                "doUpsertCollection"}) =>
        \A i \in 1..Len(BodyRecords) :
            /\ ~HasKey(BodyRecords[i], "Id")
            /\ HasAttributes(BodyRecords[i])
            /\ last.op \in {"doUpsertOne", "doUpsertCollection"}
                  => ~HasKey(BodyRecords[i], last.fieldName)

\* C6 amended: insert (single and collection), single update and single upsert
\* send records without Id and with the attributes block (a single upsert
\* drops the block when its external-id field is itself "attributes"), single
\* upsert also without the external-id field; collection update and collection
\* upsert send records with the attributes block that keep their Id,
\* respectively their external-id field.
C6_Encoding ==
    OneRequest =>
        \A i \in 1..Len(BodyRecords) :
            /\ last.op \in {"doInsertOne", "doUpdateOne", "doUpsertOne", "doInsertCollection"}
                  => /\ ~HasKey(BodyRecords[i], "Id")
                     /\ HasAttributes(BodyRecords[i])
                           <=> ~(last.op = "doUpsertOne" /\ last.fieldName = "attributes")
            /\ last.op = "doUpsertOne" => ~HasKey(BodyRecords[i], last.fieldName)
            /\ last.op = "doUpdateCollection"
                  => /\ HasAttributes(BodyRecords[i])
                     /\ <<"Id", RecordsOf(last.arg)[i]["Id"]>> \in BodyRecords[i]
            /\ last.op = "doUpsertCollection"
                  => /\ HasAttributes(BodyRecords[i])
                     /\ <<last.fieldName, RecordsOf(last.arg)[i][last.fieldName]>>
                            \in BodyRecords[i]
                     /\ HasKey(BodyRecords[i], "Id")
                            <=> "Id" \in DOMAIN RecordsOf(last.arg)[i]

C6_Witness ==
    /\ last.op = "doUpsertCollection"
    /\ OneRequest
    /\ Len(BodyRecords) = MaxSmall
    /\ \A i \in 1..Len(BodyRecords) :
          HasKey(BodyRecords[i], "Id") /\ HasKey(BodyRecords[i], last.fieldName)

\* C8: a collection call succeeds exactly when its request got an answer with
\* status OK whose scan finds no failing record; a transport error comes back
\* as it is, a status other than OK gives the parsed remote error whatever the
\* body says of the records, and with status OK one failing record fails the
\* call.
C8_CollectionOutcome ==
    last.op \in CollectionOps =>
        /\ last.err = Nil <=>
              (OneRequest /\ ~last.resp.transportErr /\ last.resp.status = StatusOK
                  /\ processSalesforceResponse(last.resp) = Nil)
        /\ (OneRequest /\ last.resp.transportErr) => last.err = ErrTransport
        /\ (OneRequest /\ ~last.resp.transportErr /\ last.resp.status # StatusOK)
              => last.err = processSalesforceError(last.resp)
        /\ (OneRequest /\ ~last.resp.transportErr /\ last.resp.status = StatusOK
                /\ last.resp.failed # {})
              => (last.err # Nil /\ last.err.failed = last.resp.failed)

C8_Witness ==
    /\ last.op = "doDeleteCollection"
    /\ OneRequest
    /\ last.resp.status = StatusOK
    /\ last.resp.failed = {MaxSmall}
    /\ last.err.failed = {MaxSmall}

\* C9: convertToSliceOfMaps gives, for every shape of input, either the
\* mappings in the order of the input or the decoding error; a single mapping
\* gives the decoding error and never a panic.
C9_ConvertTotal ==
    last.op \in CollectionOps =>
        LET c == convertToSliceOfMaps(last.arg)
        IN  /\ c.err \in {Nil, ErrDecode}
            /\ c.err = Nil => (IsSlice(last.arg) /\ c.recordMap = RecordsOf(last.arg))
            /\ last.arg.shape = "map" => last.err = ErrDecode
            /\ last.err # Panic

\* C10: a single update or upsert handed the caller's own map and past its
\* identifier check has removed Id (and the external-id field) from that map,
\* whatever came of the request; any later update, or upsert on the same
\* field, of that map fails on the missing identifier with no request sent.
C10_NotRepeatable ==
    /\ (last.op = "doUpdateOne" /\ last.byRef /\ last.err \notin LocalErrors)
          => "Id" \notin DOMAIN callerMap
    /\ (last.op = "doUpsertOne" /\ last.byRef /\ last.err \notin LocalErrors)
          => ("Id" \notin DOMAIN callerMap /\ last.fieldName \notin DOMAIN callerMap)
    /\ (last.op = "doUpdateOne" /\ last.byRef /\ last.prior # {})
          => (last.err = ErrIdNotFound /\ NoRequest)
    /\ (last.op = "doUpsertOne" /\ last.byRef
            /\ <<"doUpsertOne", last.fieldName>> \in last.prior)
          => (last.err = ErrExternalId /\ NoRequest)

C10_Witness ==
    /\ last.op = "doUpdateOne"
    /\ last.byRef
    /\ <<"doUpdateOne", "Id">> \in last.prior
    /\ last.resp = NoResponse
    /\ last.err = ErrIdNotFound

(***************************************************************************)
(* Two callers in refreshSession on one session                            *)
(*                                                                         *)
(* refreshSession takes no lock: the flow and each of the four assignments *)
(* of lines 88-91 is a step of its own, and the steps of the two callers   *)
(* interleave freely.  The writes race; the interleavings of whole-field   *)
(* writes modelled here are among the outcomes a build can show.           *)
(***************************************************************************)
Procs == {1, 2}

NoFlowResult == [auth |-> NilAuth, err |-> Nil, posts |-> <<>>]

\* the answers the two refreshes get: a failure, or one of two fresh tokens
ConcAnswers == {Answer("transportErr", 0, EmptyJson),
                Answer("status", 401, EmptyJson),
                Answer("object", StatusOK, TokenBody("1")),
                Answer("object", StatusOK, TokenBody("2"))}

\* sessions as Init returns them for the password and client-credentials flows
ConcSessions ==
    {SalesforceInit(c, Answer("object", StatusOK, TokenBody("0")),
                    Response(FALSE, StatusOK, {}))
        : c \in {Creds("https://login", "user", "pass", "sectok", "key", "secret", ""),
                 Creds("https://login", "", "", "", "key", "secret", "")}}

InitConc ==
    /\ callerMap = EmptyMap
    /\ last = NoCall
    /\ passed = {}
    /\ \E r \in ConcSessions :
         /\ sf = [auth |-> r.auth]
         /\ issued = [creds |-> r.auth[1].creds, auth |-> r.auth]
    /\ lastAuth = NoAuthCall
    /\ pc = [p \in Procs |-> "start"]
    /\ refreshed = [p \in Procs |-> NoFlowResult]

\* lines 67-86: the switch on auth.grantType and the flow it runs
RunFlow(p) ==
    /\ pc[p] = "start"
    /\ \E answer \in ConcAnswers :
         LET r == RefreshFlow(sf.auth[1], answer)
         IN  /\ refreshed' = [refreshed EXCEPT ![p] = r]
             /\ pc' = [pc EXCEPT ![p] = IF r.auth # NilAuth THEN "line88" ELSE "done"]
    /\ UNCHANGED <<sf, lastAuth, issued, dmlVars>>

\* line 88: auth.AccessToken = refreshedAuth.AccessToken
AssignAccessToken(p) ==
    /\ pc[p] = "line88"
    /\ sf' = [auth |-> <<[sf.auth[1] EXCEPT !.AccessToken = refreshed[p].auth[1].AccessToken]>>]
    /\ pc' = [pc EXCEPT ![p] = "line89"]
    /\ UNCHANGED <<refreshed, lastAuth, issued, dmlVars>>

\* line 89: auth.IssuedAt = refreshedAuth.IssuedAt
AssignIssuedAt(p) ==
    /\ pc[p] = "line89"
    /\ sf' = [auth |-> <<[sf.auth[1] EXCEPT !.IssuedAt = refreshed[p].auth[1].IssuedAt]>>]
    /\ pc' = [pc EXCEPT ![p] = "line90"]
    /\ UNCHANGED <<refreshed, lastAuth, issued, dmlVars>>

\* line 90: auth.Signature = refreshedAuth.Signature
AssignSignature(p) ==
    /\ pc[p] = "line90"
    /\ sf' = [auth |-> <<[sf.auth[1] EXCEPT !.Signature = refreshed[p].auth[1].Signature]>>]
    /\ pc' = [pc EXCEPT ![p] = "line91"]
    /\ UNCHANGED <<refreshed, lastAuth, issued, dmlVars>>

\* line 91: auth.Id = refreshedAuth.Id, and the return of line 94
AssignId(p) ==
    /\ pc[p] = "line91"
    /\ sf' = [auth |-> <<[sf.auth[1] EXCEPT !.Id = refreshed[p].auth[1].Id]>>]
    /\ pc' = [pc EXCEPT ![p] = "done"]
    /\ UNCHANGED <<refreshed, lastAuth, issued, dmlVars>>

NextConc ==
    \E p \in Procs :
        \/ RunFlow(p)
        \/ AssignAccessToken(p)
        \/ AssignIssuedAt(p)
        \/ AssignSignature(p)
        \/ AssignId(p)

SpecConc == InitConc /\ [][NextConc]_vars

(***************************************************************************)
(* Properties of the session layer                                         *)
(***************************************************************************)
PasswordPost(c) ==
    [url |-> c.Domain \o "/services/oauth2/token",
     form |-> [grant_type |-> "password", client_id |-> c.ConsumerKey,
               client_secret |-> c.ConsumerSecret, username |-> c.Username,
               password |-> c.Password \o c.SecurityToken]]
ClientCredentialsPost(c) ==
    [url |-> c.Domain \o "/services/oauth2/token",
     form |-> [grant_type |-> "client_credentials", client_id |-> c.ConsumerKey,
               client_secret |-> c.ConsumerSecret]]

\* C3: refreshSession goes by the session's stored tag alone: "password" posts
\* the resource-owner request and nothing else, "client_credentials" posts the
\* client-credentials request and nothing else, both built from the credentials
\* given to Init; any other tag fails without a request, whatever the endpoint
\* would have answered.
C3_RefreshDispatch ==
    lastAuth.op = "refreshSession" =>
        LET tag == lastAuth.before[1].grantType
        IN  /\ tag = "password" => lastAuth.posts = <<PasswordPost(issued.creds)>>
            /\ tag = "client_credentials"
                  => lastAuth.posts = <<ClientCredentialsPost(issued.creds)>>
            /\ tag \notin {"password", "client_credentials"}
                  => /\ lastAuth.err = ErrInvalidSession
                     /\ lastAuth.posts = <<>>
                     /\ sf.auth = lastAuth.before

C3_Witness ==
    /\ lastAuth.op = "refreshSession"
    /\ lastAuth.before[1].grantType = "access_token"
    /\ lastAuth.err = ErrInvalidSession
    /\ issued.creds.AccessToken = "token0"

\* C4: refreshes never change the session's instance URL, flow tag or
\* credentials from what Init returned; a successful refresh sets exactly the
\* access token, issued-at, signature and id to those of the new token
\* response, and a failed refresh changes nothing.
C4_RefreshFrame ==
    /\ sf.auth # NilAuth =>
          /\ issued.auth # NilAuth
          /\ sf.auth[1].InstanceUrl = issued.auth[1].InstanceUrl
          /\ sf.auth[1].grantType = issued.auth[1].grantType
          /\ sf.auth[1].creds = issued.creds
    /\ lastAuth.op = "refreshSession" =>
          LET a == sf.auth[1]
              b == lastAuth.before[1]
              body == lastAuth.answer.body
          IN  /\ lastAuth.err = Nil =>
                    a = [b EXCEPT !.AccessToken = JsonField(body, "access_token"),
                                  !.IssuedAt = JsonField(body, "issued_at"),
                                  !.Signature = JsonField(body, "signature"),
                                  !.Id = JsonField(body, "id")]
              /\ lastAuth.err # Nil => a = b

C4_Witness ==
    /\ lastAuth.op = "refreshSession"
    /\ lastAuth.err = Nil
    /\ sf.auth[1].AccessToken = "access_token2"
    /\ lastAuth.before[1].AccessToken = "access_token1"
    /\ sf.auth[1].InstanceUrl = "instance_url1"
    /\ sf.auth[1].Scope = "scope1"

\* C5: the client holds no session, or one whose access token, instance URL
\* and flow tag are all non-empty; a status-200 token response without an
\* access token is a failure that neither produces nor overwrites a session.
C5_SessionPopulated ==
    /\ sf.auth # NilAuth =>
          /\ sf.auth[1].AccessToken # ""
          /\ sf.auth[1].InstanceUrl # ""
          /\ sf.auth[1].grantType # ""
    /\ (lastAuth.answer.kind = "object" /\ "access_token" \notin DOMAIN lastAuth.answer.body)
          => /\ lastAuth.err # Nil
             /\ lastAuth.op = "Init" => sf.auth = NilAuth
             /\ lastAuth.op = "refreshSession" => sf.auth = lastAuth.before

\* C7: once two concurrent refreshes of one session have both returned, the
\* session's access token, issued-at, signature and id all come from one token
\* response (or are untouched when neither refresh got a token).
TokenFields(a) == <<a.AccessToken, a.IssuedAt, a.Signature, a.Id>>
C7_NoMixedSession ==
    (\A p \in Procs : pc[p] = "done") =>
        LET got == {p \in Procs : refreshed[p].auth # NilAuth}
        IN  IF got = {} THEN sf.auth = issued.auth
            ELSE \E p \in got : TokenFields(sf.auth[1]) = TokenFields(refreshed[p].auth[1])

====
